---- MODULE Spec2Model ----
(***************************************************************************)
(* Rock-paper-scissors backend: the Markov predictor (backend/ml.py) and   *)
(* the handlers that drive it (backend/app.py).                            *)
(*                                                                         *)
(* A Python dict is modelled with its insertion order where the code       *)
(* depends on it: the inner dict transitions[state] is a sequence of       *)
(* <<move, count>> pairs in insertion order, because max(d, key=d.get)     *)
(* returns the first maximal key in iteration order.  The outer dict is    *)
(* only looked up and measured, so it is a function whose DOMAIN is the    *)
(* set of keys present.                                                    *)
(***************************************************************************)
EXTENDS Integers, Sequences, FiniteSets, TLC

\* ml.py: MOVES = ["rock", "paper", "scissors"]  (a list: order matters)
MOVES == <<"rock", "paper", "scissors">>

MoveSet == {MOVES[i] : i \in 1..Len(MOVES)}

\* Symbols outside the alphabet that a direct caller of the core may pass.
InvalidSymbols == {"lizard", "Rock"}

\* ml.py: order: int = 3 ; app.py: MarkovPredictor(order=3)
order == 3

\* ml.py: deque(maxlen=50)
maxlen == 50

\* Bound of the model: valid observations explored from a starting instance.
MaxObs == 6

\* Bound of the model: free slots left in History by the prefilled start.
Headroom == 2

\* Bound of the model: valid observations explored beyond the capacity.
MaxOver == 2

VARIABLES
    predictor,  \* app.py global `predictor`: [order, history, transitions]
    observed,   \* every valid move recorded into this instance, in order
    call,       \* the last operation: [op, args, ret]
    epoch,      \* how many times the global `predictor` has been rebound
    threads     \* the requests in flight in the worker threads, one record each

vars == <<predictor, observed, call, epoch, threads>>

\* the variables of the requests in flight
conc == <<epoch, threads>>

history == predictor.history

transitions == predictor.transitions

Max(a, b) == IF a >= b THEN a ELSE b

Min(a, b) == IF a <= b THEN a ELSE b

\* Python s[-n:] for n >= 1
LastN(s, n) == SubSeq(s, Max(1, Len(s) - n + 1), Len(s))

(***************************************************************************)
(* ml.py                                                                   *)
(***************************************************************************)

\* faulty variant of beats: the move that the given move beats (the inverse cycle)
beats_inverse(move) ==
    IF move = "rock" THEN "scissors"
    ELSE IF move = "paper" THEN "rock"
    ELSE "paper"

beats(move) ==
    IF move = "rock" THEN "paper"
    ELSE IF move = "paper" THEN "scissors"
    ELSE "rock"

\* faulty variant of DequeAppend: a deque without maxlen never evicts
DequeAppendUnbounded(d, x) == Append(d, x)

\* faulty variant of DequeAppend: the buffer is emptied when it overflows
DequeAppendClearOnFull(d, x) == IF Len(d) >= maxlen THEN <<x>> ELSE Append(d, x)

\* deque(maxlen=50).append(x): at capacity the leftmost item is discarded
DequeAppend(d, x) ==
    IF Len(d) >= maxlen THEN Append(Tail(d), x) ELSE Append(d, x)

\* keys of an inner dict, in insertion order
DictKeys(d) == [i \in 1..Len(d) |-> d[i][1]]

DictHas(d, k) == \E i \in 1..Len(d) : d[i][1] = k

\* d.get(k) for a key that may be missing from a dict of ints (None as 0 is
\* never used: callers only read keys they iterate)
DictValue(d, k) == LET i == CHOOSE i \in 1..Len(d) : d[i][1] = k IN d[i][2]

\* faulty variant of DefaultDictIncrement: d[k] = 1, the count is set, not raised
DefaultDictIncrementAssign(d, k) ==
    IF DictHas(d, k)
    THEN [i \in 1..Len(d) |-> IF d[i][1] = k THEN <<k, 1>> ELSE d[i]]
    ELSE Append(d, <<k, 1>>)

\* defaultdict(int): d[k] += 1  (a missing key is inserted last, from 0)
DefaultDictIncrement(d, k) ==
    IF DictHas(d, k)
    THEN [i \in 1..Len(d) |-> IF d[i][1] = k THEN <<k, d[i][2] + 1>> ELSE d[i]]
    ELSE Append(d, <<k, 1>>)

\* defaultdict(lambda: defaultdict(int)): tr[state][user_move] += 1
\* (tr[state] inserts an empty inner dict when state is missing)
TransitionsIncrement(tr, state, user_move) ==
    LET inner == IF state \in DOMAIN tr THEN tr[state] ELSE <<>>
        new == DefaultDictIncrement(inner, user_move)
    IN [k \in (DOMAIN tr) \cup {state} |-> IF k = state THEN new ELSE tr[k]]

\* faulty variant of TransitionsGet: tr[state] on the defaultdict, which inserts an
\* empty inner dict for a missing key
TransitionsGetItem(tr, state) ==
    IF state \in DOMAIN tr
    THEN [found |-> TRUE, value |-> tr[state], dict |-> tr]
    ELSE [found |-> TRUE, value |-> <<>>,
          dict |-> [k \in (DOMAIN tr) \cup {state} |->
                       IF k = state THEN <<>> ELSE tr[k]]]

\* tr.get(state): found is FALSE for None; dict is the table after the call
\* (dict.get never calls __missing__)
TransitionsGet(tr, state) ==
    IF state \in DOMAIN tr
    THEN [found |-> TRUE, value |-> tr[state], dict |-> tr]
    ELSE [found |-> FALSE, value |-> <<>>, dict |-> tr]

\* faulty variant of MaxFirst: min(keys, key=...), the first key of minimal value
MinFirst(keys, vals) ==
    LET best == CHOOSE i \in 1..Len(keys) :
                  /\ \A j \in 1..Len(keys) : vals[j] >= vals[i]
                  /\ \A j \in 1..(i - 1) : vals[j] > vals[i]
    IN keys[best]

\* faulty variant of MaxFirst: the last key of maximal value (a scan with >=)
MaxLast(keys, vals) ==
    LET best == CHOOSE i \in 1..Len(keys) :
                  /\ \A j \in 1..Len(keys) : vals[j] <= vals[i]
                  /\ \A j \in (i + 1)..Len(keys) : vals[j] < vals[i]
    IN keys[best]

\* max(keys, key=...): the first key, in iteration order, of maximal value;
\* vals[i] is the value of keys[i]
MaxFirst(keys, vals) ==
    LET best == CHOOSE i \in 1..Len(keys) :
                  /\ \A j \in 1..Len(keys) : vals[j] <= vals[i]
                  /\ \A j \in 1..(i - 1) : vals[j] < vals[i]
    IN keys[best]

\* freq[m] after the loop `for m in self.history: freq[m] += 1`
Freq(h, m) == Cardinality({i \in 1..Len(h) : h[i] = m})

\* a fresh instance: MarkovPredictor(order=o)
MarkovPredictor(o) == [order |-> o, history |-> <<>>, transitions |-> <<>>]

\* faulty variant of record_user_move: the move is appended before the state is formed
record_user_move_append_first(self, user_move) ==
    IF user_move \notin MoveSet THEN self
    ELSE LET h == DequeAppend(self.history, user_move)
             tr == IF Len(h) >= self.order
                   THEN TransitionsIncrement(self.transitions,
                                             LastN(h, self.order), user_move)
                   ELSE self.transitions
         IN [self EXCEPT !.transitions = tr, !.history = h]

\* faulty variant of record_user_move: no membership test on the symbol
record_user_move_unchecked(self, user_move) ==
    LET tr == IF Len(self.history) >= self.order
              THEN TransitionsIncrement(self.transitions,
                                        LastN(self.history, self.order), user_move)
              ELSE self.transitions
    IN [self EXCEPT !.transitions = tr,
                    !.history = DequeAppend(self.history, user_move)]

\* MarkovPredictor.record_user_move: the instance after the call (returns None)
record_user_move(self, user_move) ==
    IF user_move \notin MoveSet THEN self
    ELSE LET tr == IF Len(self.history) >= self.order
                   THEN TransitionsIncrement(self.transitions,
                                             LastN(self.history, self.order), user_move)
                   ELSE self.transitions
         IN [self EXCEPT !.transitions = tr,
                         !.history = DequeAppend(self.history, user_move)]

\* MarkovPredictor.predict_next_user_move: [ret, self] = the returned move and
\* the instance after the call; rnd is what random.choice(MOVES) draws
predict_next_user_move(self, rnd) ==
    IF Len(self.history) < self.order THEN [ret |-> rnd, self |-> self]
    ELSE LET state == LastN(self.history, self.order)
             got == TransitionsGet(self.transitions, state)
             after == [self EXCEPT !.transitions = got.dict]
             next_counts == got.value
             freq == [i \in 1..Len(MOVES) |-> Freq(self.history, MOVES[i])]
             counts == [i \in 1..Len(next_counts) |->
                           DictValue(next_counts, DictKeys(next_counts)[i])]
         IN IF ~got.found \/ Len(next_counts) = 0
            THEN [ret |-> IF Len(self.history) # 0 THEN MaxFirst(MOVES, freq) ELSE rnd,
                  self |-> after]
            ELSE [ret |-> MaxFirst(DictKeys(next_counts), counts), self |-> after]

\* faulty variant of choose_ai_move: the pair is returned in the wrong order
choose_ai_move_swapped(self, rnd) ==
    LET p == predict_next_user_move(self, rnd)
    IN [ai_move |-> p.ret, predicted_user |-> beats(p.ret), self |-> p.self]

\* MarkovPredictor.choose_ai_move: (ai_move, predicted_user) and the instance after
choose_ai_move(self, rnd) ==
    LET p == predict_next_user_move(self, rnd)
    IN [ai_move |-> beats(p.ret), predicted_user |-> p.ret, self |-> p.self]

(***************************************************************************)
(* app.py                                                                  *)
(***************************************************************************)

\* faulty variant of outcome: the result from the AI's perspective
outcome_for_ai(user_move, ai_move) ==
    IF user_move = ai_move THEN "draw"
    ELSE IF \/ (ai_move = "rock" /\ user_move = "scissors")
            \/ (ai_move = "paper" /\ user_move = "rock")
            \/ (ai_move = "scissors" /\ user_move = "paper")
         THEN "win"
         ELSE "lose"

\* outcome(user_move, ai_move): win/lose/draw from the user's perspective
outcome(user_move, ai_move) ==
    IF user_move = ai_move THEN "draw"
    ELSE IF \/ (user_move = "rock" /\ ai_move = "scissors")
            \/ (user_move = "paper" /\ ai_move = "rock")
            \/ (user_move = "scissors" /\ ai_move = "paper")
         THEN "win"
         ELSE "lose"

\* faulty variant of play: the user's move is recorded before the AI chooses
play_record_first(p, user_move, rnd) ==
    LET recorded == record_user_move(p, user_move)
        c == choose_ai_move(recorded, rnd)
    IN [response |-> [user_move |-> user_move,
                      ai_move |-> c.ai_move,
                      result |-> outcome(user_move, c.ai_move),
                      predicted_next_user_move |-> c.predicted_user,
                      model_info |->
                          [history_len |-> Len(c.self.history),
                           learned_states |-> Cardinality(DOMAIN c.self.transitions)]],
        predictor |-> c.self]

\* faulty variant of play: the counters are read before the move is recorded
play_info_before_record(p, user_move, rnd) ==
    LET c == choose_ai_move(p, rnd)
        recorded == record_user_move(c.self, user_move)
    IN [response |-> [user_move |-> user_move,
                      ai_move |-> c.ai_move,
                      result |-> outcome(user_move, c.ai_move),
                      predicted_next_user_move |-> c.predicted_user,
                      model_info |->
                          [history_len |-> Len(c.self.history),
                           learned_states |-> Cardinality(DOMAIN c.self.transitions)]],
        predictor |-> recorded]

\* play(req) for a valid move on predictor p: the response and the predictor
\* after the round
play(p, user_move, rnd) ==
    LET c == choose_ai_move(p, rnd)
        result == outcome(user_move, c.ai_move)
        recorded == record_user_move(c.self, user_move)
    IN [response |-> [user_move |-> user_move,
                      ai_move |-> c.ai_move,
                      result |-> result,
                      predicted_next_user_move |-> c.predicted_user,
                      model_info |->
                          [history_len |-> Len(recorded.history),
                           learned_states |-> Cardinality(DOMAIN recorded.transitions)]],
        predictor |-> recorded]

\* faulty variant of reset: the history is cleared but the learned table is kept
reset_keep_table ==
    [predictor |-> [MarkovPredictor(order) EXCEPT !.transitions = predictor.transitions],
     response |-> [ok |-> TRUE, message |-> "Model reset"]]

\* reset(): the global is rebound to a new instance
reset ==
    [predictor |-> MarkovPredictor(order),
     response |-> [ok |-> TRUE, message |-> "Model reset"]]

\* app.py: Move = Literal["rock", "paper", "scissors"], the type of
\* PlayRequest.user_move
Move == {"rock", "paper", "scissors"}

\* faulty variant of play_request: the body is neither typed nor tested, so the
\* round runs on whatever symbol it carries
play_request_unvalidated(p, user_move, rnd) ==
    LET r == play(p, user_move, rnd)
    IN [raised |-> FALSE, response |-> r.response, predictor |-> r.predictor,
        core_calls |-> <<"choose_ai_move", "record_user_move">>]

\* POST /play with any body: [raised, response, predictor, core_calls], where
\* core_calls lists the methods of the predictor the request ran.  A body that
\* PlayRequest does not accept is answered 422 before play is entered; play's
\* own test answers 400.
play_request(p, user_move, rnd) ==
    IF user_move \notin Move
    THEN [raised |-> TRUE, response |-> [status |-> 422], predictor |-> p,
          core_calls |-> <<>>]
    ELSE IF user_move \notin MoveSet
    THEN [raised |-> TRUE, response |-> [status |-> 400, detail |-> "Invalid move"],
          predictor |-> p, core_calls |-> <<>>]
    ELSE LET r == play(p, user_move, rnd)
         IN [raised |-> FALSE, response |-> r.response, predictor |-> r.predictor,
             core_calls |-> <<"choose_ai_move", "record_user_move">>]

(***************************************************************************)
(* The state machine: one action per operation of the core and per         *)
(* handler of the application, each taken as a whole.                      *)
(***************************************************************************)

Called(op, args, ret) == [op |-> op, args |-> args, ret |-> ret, raised |-> FALSE]

\* Valid observations are explored for the first MaxObs of an instance, and
\* again around the capacity of History.
CanObserve ==
    \/ Len(observed) < MaxObs
    \/ /\ Len(observed) >= maxlen - Headroom
       /\ Len(observed) < maxlen + MaxOver

\* the worker threads that serve requests at the same time
Threads == {"t1", "t2"}

\* a thread that serves no request; pc names the line of play (or of
\* record_user_move, called from it) the thread executes next
IdleThread ==
    [pc |-> "idle", user_move |-> "", ai_move |-> "", predicted |-> "",
     result |-> "", chose_from |-> -1, self |-> -1, learn |-> FALSE,
     state |-> <<>>, count |-> 0, pos |-> 0,
     states_from |-> -1, learned_states |-> 0, len_from |-> -1, history_len |-> 0]

\* no request is in flight and the global is the instance bound at import
NoRequests ==
    /\ epoch = 0
    /\ threads = [t \in Threads |-> IdleThread]

\* predictor.record_user_move(x), x any symbol
RecordUserMove ==
    \E x \in MoveSet \cup InvalidSymbols :
        /\ x \in MoveSet => CanObserve
        /\ predictor' = record_user_move(predictor, x)
        /\ observed' = IF x \in MoveSet THEN Append(observed, x) ELSE observed
        /\ call' = Called("record_user_move", <<x>>, "None")
        /\ UNCHANGED conc

\* predictor.predict_next_user_move()
PredictNextUserMove ==
    \E rnd \in MoveSet :
        LET p == predict_next_user_move(predictor, rnd)
        IN /\ predictor' = p.self
           /\ call' = Called("predict_next_user_move", <<>>, p.ret)
           /\ UNCHANGED <<observed, conc>>

\* predictor.choose_ai_move()
ChooseAiMove ==
    \E rnd \in MoveSet :
        LET c == choose_ai_move(predictor, rnd)
        IN /\ predictor' = c.self
           /\ call' = Called("choose_ai_move", <<>>, <<c.ai_move, c.predicted_user>>)
           /\ UNCHANGED <<observed, conc>>

\* POST /play with a valid move
Play ==
    \E m \in MoveSet, rnd \in MoveSet :
        /\ CanObserve
        /\ LET r == play(predictor, m, rnd)
           IN /\ predictor' = r.predictor
              /\ call' = Called("play", <<m>>, r.response)
        /\ observed' = Append(observed, m)
        /\ UNCHANGED conc

\* POST /play with a symbol outside the alphabet
PlayInvalid ==
    \E x \in InvalidSymbols, rnd \in MoveSet :
        LET r == play_request(predictor, x, rnd)
        IN /\ predictor' = r.predictor
           /\ call' = [op |-> "play_request", args |-> <<x>>, ret |-> r.response,
                       raised |-> r.raised, core_calls |-> r.core_calls]
           /\ UNCHANGED <<observed, conc>>

\* POST /reset
Reset ==
    /\ predictor' = reset.predictor
    /\ observed' = <<>>
    /\ call' = Called("reset", <<>>, reset.response)
    /\ UNCHANGED conc

\* GET /health
Health ==
    /\ call' = Called("health", <<>>, [ok |-> TRUE])
    /\ UNCHANGED <<predictor, observed, conc>>

Next ==
    \/ RecordUserMove
    \/ PredictNextUserMove
    \/ ChooseAiMove
    \/ Play
    \/ PlayInvalid
    \/ Reset
    \/ Health

\* app.py: predictor = MarkovPredictor(order=3) at import
Init ==
    /\ predictor = MarkovPredictor(order)
    /\ observed = <<>>
    /\ call = Called("import", <<>>, "None")
    /\ NoRequests

Spec == Init /\ [][Next]_vars

(***************************************************************************)
(* A second start, for the behaviour at the capacity of History: the       *)
(* instance that results from recording a periodic sequence of             *)
(* maxlen - Headroom moves into a fresh one.                               *)
(***************************************************************************)

PrefillPatterns == {<<"rock">>, <<"paper", "scissors">>}

Prefill(n, pattern) == [i \in 1..n |-> pattern[((i - 1) % Len(pattern)) + 1]]

RECURSIVE RecordAll(_, _)
RecordAll(self, s) ==
    IF s = <<>> THEN self
    ELSE RecordAll(record_user_move(self, Head(s)), Tail(s))

InitFull ==
    \E pattern \in PrefillPatterns :
        LET s == Prefill(maxlen - Headroom, pattern)
        IN /\ predictor = RecordAll(MarkovPredictor(order), s)
           /\ observed = s
           /\ call = Called("record_user_move", <<s[Len(s)]>>, "None")
           /\ NoRequests

SpecFull == InitFull /\ [][Next]_vars

(***************************************************************************)
(* A third start, for ties between learned counts: the instances that      *)
(* result from recording the same eight observations, seven rock and one   *)
(* paper after (rock,rock,rock), in two arrival orders.                    *)
(***************************************************************************)

ArrivalOrders ==
    {<<"rock", "rock", "rock", "rock", "paper", "rock", "rock", "rock">>,
     <<"rock", "rock", "rock", "paper", "rock", "rock", "rock", "rock">>}

InitTie ==
    \E s \in ArrivalOrders :
        /\ predictor = RecordAll(MarkovPredictor(order), s)
        /\ observed = s
        /\ call = Called("record_user_move", <<s[Len(s)]>>, "None")
        /\ NoRequests

SpecTie == InitTie /\ [][Next]_vars

(***************************************************************************)
(* Requests served at the same time.  play is a plain `def`, which the     *)
(* server runs in worker threads, and nothing locks the shared predictor,  *)
(* so the lines of two requests interleave.  One step is one line of play  *)
(* or of record_user_move; `transitions[state][user_move] += 1` is a read  *)
(* of the count followed by a write of it, two steps.  Every line of play  *)
(* that names `predictor` reads the global again.                          *)
(*                                                                         *)
(* A thread inside record_user_move works on the instance it was called    *)
(* on (self).  Once the global has been rebound that instance can no       *)
(* longer be reached by any later read of `predictor`, so what the thread  *)
(* does to it is not kept in the state.                                    *)
(***************************************************************************)

\* Bound of the model: resets that may happen while requests are in flight.
MaxResets == 1

\* d[k] = v on an inner dict (a new key is inserted last)
DictSet(d, k, v) ==
    IF DictHas(d, k)
    THEN [i \in 1..Len(d) |-> IF d[i][1] = k THEN <<k, v>> ELSE d[i]]
    ELSE Append(d, <<k, v>>)

\* the table after the read half of tr[state][user_move] += 1: both
\* defaultdicts insert what is missing, the count from int() = 0
TransitionsTouch(tr, state, user_move) ==
    LET inner == IF state \in DOMAIN tr THEN tr[state] ELSE <<>>
        new == IF DictHas(inner, user_move) THEN inner
               ELSE Append(inner, <<user_move, 0>>)
    IN [k \in (DOMAIN tr) \cup {state} |-> IF k = state THEN new ELSE tr[k]]

\* the table after the write half of tr[state][user_move] += 1
TransitionsStore(tr, state, user_move, v) ==
    [k \in (DOMAIN tr) \cup {state} |->
        IF k = state
        THEN DictSet(IF state \in DOMAIN tr THEN tr[state] ELSE <<>>, user_move, v)
        ELSE tr[k]]

\* the thread's self is still the instance the global names
Live(t) == threads[t].self = epoch

\* app.py 56-64: a valid request arrives; the AI move is chosen on the
\* instance the global names now, and the outcome is computed
TChoose(t) ==
    /\ threads[t].pc = "idle"
    /\ \E m \in MoveSet, rnd \in MoveSet :
          LET c == choose_ai_move(predictor, rnd)
          IN /\ predictor' = c.self
             /\ threads' = [threads EXCEPT ![t] =
                   [@ EXCEPT !.pc = "record", !.user_move = m,
                             !.ai_move = c.ai_move,
                             !.predicted = c.predicted_user,
                             !.result = outcome(m, c.ai_move),
                             !.chose_from = epoch]]
    /\ UNCHANGED <<observed, call, epoch>>

\* app.py 67, ml.py 39-43: predictor.record_user_move(user_move) is entered on
\* the instance the global names now; the length of its History is tested
TRecord(t) ==
    /\ threads[t].pc = "record"
    /\ LET learn == Len(history) >= predictor.order
       IN threads' = [threads EXCEPT ![t] =
             [@ EXCEPT !.pc = IF learn THEN "state" ELSE "append",
                       !.self = epoch, !.learn = learn]]
    /\ UNCHANGED <<predictor, observed, call, epoch>>

\* ml.py 44: state = tuple(list(self.history)[-self.order:])
TState(t) ==
    /\ threads[t].pc = "state"
    /\ threads' = [threads EXCEPT ![t] =
          [@ EXCEPT !.pc = "load",
                    !.state = IF Live(t) THEN LastN(history, predictor.order) ELSE @]]
    /\ UNCHANGED <<predictor, observed, call, epoch>>

\* ml.py 45, first half: the count at transitions[state][user_move] is read
TLoad(t) ==
    /\ threads[t].pc = "load"
    /\ IF Live(t)
       THEN /\ predictor' = [predictor EXCEPT !.transitions =
                   TransitionsTouch(@, threads[t].state, threads[t].user_move)]
            /\ threads' = [threads EXCEPT ![t] =
                   [@ EXCEPT !.pc = "store",
                             !.count = DictValue(
                                 TransitionsTouch(transitions, threads[t].state,
                                                  threads[t].user_move)[threads[t].state],
                                 threads[t].user_move)]]
       ELSE /\ threads' = [threads EXCEPT ![t] = [@ EXCEPT !.pc = "store"]]
            /\ UNCHANGED predictor
    /\ UNCHANGED <<observed, call, epoch>>

\* ml.py 45, second half: the count read, plus 1, is written back
TStore(t) ==
    /\ threads[t].pc = "store"
    /\ IF Live(t)
       THEN predictor' = [predictor EXCEPT !.transitions =
                TransitionsStore(@, threads[t].state, threads[t].user_move,
                                 threads[t].count + 1)]
       ELSE UNCHANGED predictor
    /\ threads' = [threads EXCEPT ![t] = [@ EXCEPT !.pc = "append"]]
    /\ UNCHANGED <<observed, call, epoch>>

\* ml.py 47: self.history.append(user_move); pos is the move's place among the
\* observations of the instance
TAppend(t) ==
    /\ threads[t].pc = "append"
    /\ IF Live(t)
       THEN /\ predictor' = [predictor EXCEPT !.history =
                   DequeAppend(@, threads[t].user_move)]
            /\ observed' = Append(observed, threads[t].user_move)
            /\ threads' = [threads EXCEPT ![t] =
                   [@ EXCEPT !.pc = "info_states", !.pos = Len(observed) + 1]]
       ELSE /\ threads' = [threads EXCEPT ![t] = [@ EXCEPT !.pc = "info_states"]]
            /\ UNCHANGED <<predictor, observed>>
    /\ UNCHANGED <<call, epoch>>

\* app.py 70: learned_states = len(predictor.transitions)
TInfoStates(t) ==
    /\ threads[t].pc = "info_states"
    /\ threads' = [threads EXCEPT ![t] =
          [@ EXCEPT !.pc = "info_len", !.states_from = epoch,
                    !.learned_states = Cardinality(DOMAIN transitions)]]
    /\ UNCHANGED <<predictor, observed, call, epoch>>

\* app.py 71-79: history_len = len(predictor.history); the response is built
TInfoLen(t) ==
    /\ threads[t].pc = "info_len"
    /\ threads' = [threads EXCEPT ![t] =
          [@ EXCEPT !.pc = "done", !.len_from = epoch,
                    !.history_len = Len(history)]]
    /\ UNCHANGED <<predictor, observed, call, epoch>>

\* app.py 84-85: the global is rebound to a new instance, in one store
TReset ==
    /\ epoch < MaxResets
    /\ predictor' = reset.predictor
    /\ observed' = <<>>
    /\ epoch' = epoch + 1
    /\ UNCHANGED <<call, threads>>

NextConc ==
    \/ TReset
    \/ \E t \in Threads :
          \/ TChoose(t)
          \/ TRecord(t)
          \/ TState(t)
          \/ TLoad(t)
          \/ TStore(t)
          \/ TAppend(t)
          \/ TInfoStates(t)
          \/ TInfoLen(t)

\* the observations recorded, one request at a time, before the concurrent ones
ConcStarts == {<<"rock", "rock">>, <<"rock", "rock", "rock", "rock">>}

InitConc ==
    \E s \in ConcStarts :
        /\ predictor = RecordAll(MarkovPredictor(order), s)
        /\ observed = s
        /\ call = Called("record_user_move", <<s[Len(s)]>>, "None")
        /\ NoRequests

SpecConc == InitConc /\ [][NextConc]_vars

(***************************************************************************)
(* Vocabulary of the properties                                            *)
(***************************************************************************)

\* a defeats b: rock beats scissors, scissors beats paper, paper beats rock
Defeats(a, b) ==
    <<a, b>> \in {<<"rock", "scissors">>, <<"scissors", "paper">>, <<"paper", "rock">>}

\* every possible State Key
AllKeys == [1..order -> MoveSet]

\* the count stored at tr[key][m], 0 when there is none
CountAt(tr, key, m) ==
    IF key \in DOMAIN tr /\ DictHas(tr[key], m) THEN DictValue(tr[key], m) ELSE 0

\* the last operation recorded a valid move (directly or in a play round)
RecordedValid ==
    /\ call.op \in {"record_user_move", "play"}
    /\ call.args[1] \in MoveSet

Warm == Len(history) >= order

(***************************************************************************)
(* C1. History never holds more than maxlen = 50 entries and always equals *)
(* the most recent min(N, 50) valid observations in arrival order; at      *)
(* capacity a valid record drops exactly the oldest entry and appends the  *)
(* new move at the end.                                                    *)
(***************************************************************************)
C1_HistoryIsRecentWindow ==
    /\ [](/\ Len(history) <= maxlen
          /\ history = LastN(observed, Min(Len(observed), maxlen)))
    /\ [][RecordedValid' /\ Len(history) = maxlen
            => history' = Append(Tail(history), call'.args[1])]_vars

C1_Witness ==
    /\ RecordedValid
    /\ Len(observed) = maxlen + 2
    /\ Len(history) = maxlen
    /\ history[maxlen] = call.args[1]

(***************************************************************************)
(* C2. A valid record changes the table in exactly one way: with at least  *)
(* `order` entries in History before the call, the count at                *)
(* [last `order` entries before the append][m] rises by 1 and nothing else *)
(* changes; with fewer entries the table is unchanged.  Fed rock, rock,    *)
(* rock, paper, a fresh model has an empty table after the 3rd observation *)
(* and exactly (rock,rock,rock) -> {paper: 1} after the 4th.               *)
(***************************************************************************)
C2_RecordUpdatesOneCount ==
    /\ [][RecordedValid' =>
            LET m == call'.args[1]
                key == LastN(history, order)
            IN IF Len(history) >= order
               THEN /\ CountAt(transitions', key, m) = CountAt(transitions, key, m) + 1
                    /\ \A k \in AllKeys, x \in MoveSet :
                          (k # key \/ x # m) =>
                              CountAt(transitions', k, x) = CountAt(transitions, k, x)
                    /\ DOMAIN transitions' = (DOMAIN transitions) \cup {key}
                    /\ \A k \in (DOMAIN transitions) \ {key} :
                          transitions'[k] = transitions[k]
               ELSE transitions' = transitions]_vars
    /\ [](observed = <<"rock", "rock", "rock">> => DOMAIN transitions = {})
    /\ [](observed = <<"rock", "rock", "rock", "paper">> =>
            /\ DOMAIN transitions = {<<"rock", "rock", "rock">>}
            /\ transitions[<<"rock", "rock", "rock">>] = << <<"paper", 1>> >>)

C2_Witness ==
    /\ RecordedValid
    /\ observed = <<"rock", "rock", "rock", "paper">>
    /\ CountAt(transitions, <<"rock", "rock", "rock">>, "paper") = 1

(***************************************************************************)
(* C3. A play round computes the AI move and the reported prediction from  *)
(* the model as it was before the round's user move is recorded: from a    *)
(* warm model, rounds that differ only in the user move return the same    *)
(* ai_move and predicted_next_user_move, and the user move is recorded     *)
(* after the outcome is computed.                                          *)
(***************************************************************************)
C3_ChoiceBeforeRecord ==
    /\ [](Warm =>
            LET a == play(predictor, MOVES[1], MOVES[1]).response
            IN \A m \in MoveSet, rnd \in MoveSet :
                  LET b == play(predictor, m, rnd).response
                  IN /\ a.ai_move = b.ai_move
                     /\ a.predicted_next_user_move = b.predicted_next_user_move)
    /\ [][call'.op = "play" =>
            \E rnd \in MoveSet :
                LET before == predict_next_user_move(predictor, rnd).ret
                IN /\ call'.ret.predicted_next_user_move = before
                   /\ call'.ret.ai_move = beats(before)
                   /\ call'.ret.result = outcome(call'.args[1], beats(before))
                   /\ history' = DequeAppend(history, call'.args[1])]_vars

\* a warm round after which the model predicts differently than it reported
C3_Witness ==
    /\ call.op = "play"
    /\ Len(observed) > order
    /\ predict_next_user_move(predictor, "rock").ret
           # call.ret.predicted_next_user_move

(***************************************************************************)
(* C4. predict_next_user_move and choose_ai_move never change the model,   *)
(* cold or warm: History and the transition table, its set of keys         *)
(* included, are the same after the call, also when the current State Key  *)
(* has never been observed.                                                *)
(***************************************************************************)
C4_PredictionIsPure ==
    [][call'.op \in {"predict_next_user_move", "choose_ai_move"} =>
         /\ history' = history
         /\ transitions' = transitions
         /\ DOMAIN transitions' = DOMAIN transitions
         /\ predictor' = predictor]_vars

\* a prediction made warm from a State Key that was never observed
C4_Witness ==
    /\ call.op \in {"predict_next_user_move", "choose_ai_move"}
    /\ Warm
    /\ LastN(history, order) \notin DOMAIN transitions
    /\ DOMAIN transitions # {}

(***************************************************************************)
(* C5. record_user_move with a symbol outside {rock, paper, scissors} is a *)
(* no-op: History and the transition table are unchanged and nothing is    *)
(* raised.                                                                 *)
(***************************************************************************)
C5_InvalidRecordIsNoOp ==
    [][call'.op = "record_user_move" /\ call'.args[1] \notin MoveSet =>
         /\ history' = history
         /\ transitions' = transitions
         /\ predictor' = predictor
         /\ ~call'.raised
         /\ call'.ret = "None"]_vars

\* an invalid symbol offered to a warm model that has learned something
C5_Witness ==
    /\ call.op = "record_user_move"
    /\ call.args[1] \in InvalidSymbols
    /\ Warm
    /\ DOMAIN transitions # {}

(***************************************************************************)
(* C6. choose_ai_move returns (selected, predicted) where selected defeats *)
(* predicted: selected = beats(predicted), and the outcome rule scores a   *)
(* user who plays predicted against selected as "lose"; so a round in      *)
(* which the user's move equals predicted_next_user_move is lost.          *)
(***************************************************************************)
C6_SelectedDefeatsPredicted ==
    /\ call.op = "choose_ai_move" =>
          LET selected == call.ret[1]
              predicted == call.ret[2]
          IN /\ Defeats(selected, predicted)
             /\ selected = beats(predicted)
             /\ outcome(predicted, selected) = "lose"
    /\ call.op = "play" =>
          LET selected == call.ret.ai_move
              predicted == call.ret.predicted_next_user_move
          IN /\ Defeats(selected, predicted)
             /\ selected = beats(predicted)
             /\ outcome(predicted, selected) = "lose"
             /\ call.ret.user_move = predicted => call.ret.result = "lose"

\* a warm round in which the user played what the model predicted
C6_Witness ==
    /\ call.op = "play"
    /\ Len(observed) > order
    /\ call.ret.user_move = call.ret.predicted_next_user_move
    /\ call.ret.result = "lose"

(***************************************************************************)
(* C7. For every valid move m: beats(m) # m, beats(beats(m)) # m,          *)
(* beats(beats(beats(m))) = m, and beats(m) is the only move that defeats  *)
(* m (rock only by paper, paper only by scissors, scissors only by rock).  *)
(***************************************************************************)
C7_BeatsIsThreeCycle ==
    /\ \A m \in MoveSet :
          /\ beats(m) \in MoveSet
          /\ beats(m) # m
          /\ beats(beats(m)) # m
          /\ beats(beats(beats(m))) = m
          /\ \A x \in MoveSet : Defeats(x, m) <=> x = beats(m)
    /\ beats("rock") = "paper"
    /\ beats("paper") = "scissors"
    /\ beats("scissors") = "rock"
    /\ call.op = "choose_ai_move" =>
          LET b == call.ret[1]
              m == call.ret[2]
          IN /\ b # m
             /\ beats(b) # m
             /\ beats(beats(b)) = m
             /\ \A x \in MoveSet : Defeats(x, m) <=> x = b

\* beats applied to the move its last branch answers
C7_Witness ==
    /\ call.op = "choose_ai_move"
    /\ call.ret = <<"rock", "scissors">>

(***************************************************************************)
(* C8. After reset, from any prior state, the shared model is a fresh cold *)
(* instance with order 3: History is empty, the table has no State Key,    *)
(* and a prediction that follows at once is a cold one, any of the three   *)
(* moves, and leaves the table empty.                                      *)
(***************************************************************************)
C8_ResetGivesFreshModel ==
    /\ [](call.op = "reset" =>
            /\ predictor.order = 3
            /\ history = <<>>
            /\ Cardinality(DOMAIN transitions) = 0
            /\ ~Warm
            /\ \A m \in MoveSet :
                  \E rnd \in MoveSet : predict_next_user_move(predictor, rnd).ret = m)
    /\ [][call.op = "reset" /\ call'.op = "predict_next_user_move" =>
            /\ call'.ret \in MoveSet
            /\ history' = <<>>
            /\ DOMAIN transitions' = {}]_vars

C8_Witness ==
    /\ call.op = "reset"
    /\ history = <<>>
    /\ DOMAIN transitions = {}
    /\ observed = <<>>

(***************************************************************************)
(* C9. Cold to warm is irreversible within an instance: the model becomes  *)
(* warm exactly when the `order`-th valid observation is recorded and      *)
(* stays warm after every further operation, evicting records included;    *)
(* only reset gives a cold model again.                                    *)
(***************************************************************************)
C9_WarmIsIrreversible ==
    /\ [](Warm <=> Len(observed) >= order)
    /\ [][Warm /\ call'.op # "reset" => Warm']_vars
    /\ [][Warm /\ ~Warm' => call'.op = "reset"]_vars
    /\ [][~Warm /\ Warm' => RecordedValid' /\ Len(observed') = order]_vars

\* still warm after a record that evicted the oldest entry
C9_Witness ==
    /\ RecordedValid
    /\ Len(observed) > maxlen
    /\ Warm

(***************************************************************************)
(* C10. outcome(user_move, ai_move) is the standard rule from the user's   *)
(* side on all nine pairs: "draw" exactly for equal moves, "win" exactly   *)
(* when the user's move beats the AI's, otherwise "lose"; so outcome(a, b) *)
(* is "win" exactly when outcome(b, a) is "lose".                          *)
(***************************************************************************)
C10_OutcomeIsStandardRule ==
    /\ \A u \in MoveSet, a \in MoveSet :
          /\ outcome(u, a) \in {"win", "lose", "draw"}
          /\ outcome(u, a) = "draw" <=> u = a
          /\ outcome(u, a) = "win" <=> Defeats(u, a)
          /\ outcome(u, a) = "lose" <=> Defeats(a, u)
          /\ outcome(u, a) = "win" <=> outcome(a, u) = "lose"
    /\ call.op = "play" =>
          LET u == call.ret.user_move
              a == call.ret.ai_move
          IN /\ u = call.args[1]
             /\ call.ret.result = "draw" <=> u = a
             /\ call.ret.result = "win" <=> Defeats(u, a)
             /\ call.ret.result = "lose" <=> Defeats(a, u)

\* a round the user wins with scissors over paper
C10_Witness ==
    /\ call.op = "play"
    /\ call.ret.user_move = "scissors"
    /\ call.ret.ai_move = "paper"
    /\ call.ret.result = "win"

(***************************************************************************)
(* C11. A play request whose move is outside the three-symbol alphabet is  *)
(* rejected with an error before the core is reached: neither              *)
(* choose_ai_move nor record_user_move runs, and History and the           *)
(* transition table of the shared model are unchanged.                     *)
(***************************************************************************)
C11_InvalidPlayIsRejected ==
    [][call'.op = "play_request" /\ call'.args[1] \notin MoveSet =>
         /\ call'.raised
         /\ call'.ret.status \in {400, 422}
         /\ call'.core_calls = <<>>
         /\ history' = history
         /\ transitions' = transitions
         /\ predictor' = predictor]_vars

\* a rejected request that reached a warm model with a learned table
C11_Witness ==
    /\ call.op = "play_request"
    /\ call.args[1] \in InvalidSymbols
    /\ call.raised
    /\ Warm
    /\ DOMAIN transitions # {}

(***************************************************************************)
(* C12. Fed rock, paper, rock, paper, ... a fresh model with order 3 has   *)
(* (rock,paper,rock) -> exactly {paper: 1} after the 4th observation, and  *)
(* each further rock, paper raises that count by one.  No operation on an  *)
(* instance ever lowers a count or removes a key.                          *)
(***************************************************************************)
Alternating(n) == [i \in 1..n |-> IF i % 2 = 1 THEN "rock" ELSE "paper"]

C12_CountsOnlyGrow ==
    /\ [](observed = Alternating(4) =>
            /\ <<"rock", "paper", "rock">> \in DOMAIN transitions
            /\ transitions[<<"rock", "paper", "rock">>] = << <<"paper", 1>> >>)
    /\ [](Len(observed) >= 4 /\ observed = Alternating(Len(observed)) =>
            transitions[<<"rock", "paper", "rock">>]
                = << <<"paper", (Len(observed) - 2) \div 2>> >>)
    /\ [][call'.op # "reset" =>
            /\ (DOMAIN transitions) \subseteq (DOMAIN transitions')
            /\ \A k \in DOMAIN transitions, m \in MoveSet :
                  CountAt(transitions', k, m) >= CountAt(transitions, k, m)]_vars

\* the second round of the cycle has raised the count to 2
C12_Witness ==
    /\ observed = Alternating(6)
    /\ CountAt(transitions, <<"rock", "paper", "rock">>, "paper") = 2

(***************************************************************************)
(* C14. The model_info counters of a play response are the model's values  *)
(* after the round's move was recorded: history_len = min(h + 1, 50) for h *)
(* the length of History before the round, and learned_states = the        *)
(* number of distinct State Keys in the table after the record.            *)
(***************************************************************************)
C14_ModelInfoAfterRecord ==
    /\ [][call'.op = "play" =>
            /\ call'.ret.model_info.history_len = Min(Len(history) + 1, maxlen)
            /\ call'.ret.model_info.history_len = Len(history')
            /\ call'.ret.model_info.learned_states = Cardinality(DOMAIN transitions')
            /\ call'.ret.model_info.learned_states =
                  Cardinality((DOMAIN transitions)
                      \cup (IF Len(history) >= order
                            THEN {LastN(history, order)} ELSE {}))]_vars
    /\ [](call.op = "play" =>
            /\ call.ret.model_info.history_len = Len(history)
            /\ call.ret.model_info.learned_states = Cardinality(DOMAIN transitions))

\* a round played at capacity, reporting 50 entries and the keys learned so far
C14_Witness ==
    /\ call.op = "play"
    /\ Len(observed) > maxlen
    /\ call.ret.model_info.history_len = maxlen
    /\ call.ret.model_info.learned_states >= 3

(***************************************************************************)
(* C15. Warm, with the State Key of the last `order` entries present in    *)
(* the table, predict_next_user_move returns a move whose count under that *)
(* key is at least the count of every other move under that key.          *)
(***************************************************************************)
CurrentKey == LastN(history, order)

C15_PredictsHighestCount ==
    /\ [](Warm /\ CurrentKey \in DOMAIN transitions =>
            \A rnd \in MoveSet :
                LET r == predict_next_user_move(predictor, rnd).ret
                IN /\ DictHas(transitions[CurrentKey], r)
                   /\ \A m \in MoveSet :
                         CountAt(transitions, CurrentKey, r)
                             >= CountAt(transitions, CurrentKey, m))
    /\ [][/\ call'.op = "predict_next_user_move"
          /\ Warm
          /\ CurrentKey \in DOMAIN transitions
          => \A m \in MoveSet :
                CountAt(transitions, CurrentKey, call'.ret)
                    >= CountAt(transitions, CurrentKey, m)]_vars

\* a prediction from a key that holds two moves with different counts
C15_Witness ==
    /\ call.op = "predict_next_user_move"
    /\ Warm
    /\ CurrentKey \in DOMAIN transitions
    /\ Len(transitions[CurrentKey]) >= 2
    /\ \E m \in MoveSet :
          /\ DictHas(transitions[CurrentKey], m)
          /\ CountAt(transitions, CurrentKey, m)
                < CountAt(transitions, CurrentKey, call.ret)

(***************************************************************************)
(* C16. Warm, with the State Key of the last `order` entries absent from   *)
(* the table, predict_next_user_move returns the move that occurs most     *)
(* often in the whole current History (the retained entries, at most 50),  *)
(* ties going to the first maximum in the order rock, paper, scissors; the *)
(* result is determined by History.                                        *)
(***************************************************************************)
MoveIndex(m) == CHOOSE i \in 1..Len(MOVES) : MOVES[i] = m

MostFrequentFirst(h, r) ==
    /\ r \in MoveSet
    /\ \A m \in MoveSet : Freq(h, m) <= Freq(h, r)
    /\ \A m \in MoveSet : MoveIndex(m) < MoveIndex(r) => Freq(h, m) < Freq(h, r)

C16_FallbackIsMostFrequent ==
    /\ [](Warm /\ CurrentKey \notin DOMAIN transitions =>
            \A rnd \in MoveSet :
                MostFrequentFirst(history, predict_next_user_move(predictor, rnd).ret))
    /\ [][/\ call'.op = "predict_next_user_move"
          /\ Warm
          /\ CurrentKey \notin DOMAIN transitions
          => MostFrequentFirst(history, call'.ret)]_vars

\* a fallback prediction that had to break a tie
C16_Witness ==
    /\ call.op = "predict_next_user_move"
    /\ Warm
    /\ CurrentKey \notin DOMAIN transitions
    /\ \E m \in MoveSet : m # call.ret /\ Freq(history, m) = Freq(history, call.ret)

(***************************************************************************)
(* C18. Every key of the transition table is a tuple of exactly `order`    *)
(* valid moves that occurred as `order` consecutive observations, and has  *)
(* at least one recorded observation: every stored count is at least 1 and *)
(* no key maps to an empty set of counts.  Keys are created only by        *)
(* record_user_move, never by a prediction.                                *)
(***************************************************************************)
C18_KeysAreObservedWindows ==
    /\ [](\A k \in DOMAIN transitions :
            /\ DOMAIN k = 1..order
            /\ \A i \in 1..order : k[i] \in MoveSet
            /\ \E j \in 1..(Len(observed) - order) :
                  SubSeq(observed, j, j + order - 1) = k
            /\ Len(transitions[k]) >= 1
            /\ \A i \in 1..Len(transitions[k]) :
                  /\ transitions[k][i][1] \in MoveSet
                  /\ transitions[k][i][2] >= 1)
    /\ [][call'.op \in {"predict_next_user_move", "choose_ai_move"} =>
            DOMAIN transitions' = DOMAIN transitions]_vars
    /\ [][DOMAIN transitions' # DOMAIN transitions =>
            RecordedValid' \/ call'.op = "reset"]_vars

\* a prediction from an unseen State Key while other keys are stored
C18_Witness ==
    /\ call.op \in {"predict_next_user_move", "choose_ai_move"}
    /\ Warm
    /\ CurrentKey \notin DOMAIN transitions
    /\ Cardinality(DOMAIN transitions) >= 2

(***************************************************************************)
(* C19. Single-threaded, the sum of all counts in the table equals         *)
(* max(0, N - order) for N the number of valid observations recorded into  *)
(* the instance; this goes on after History has reached its capacity, so   *)
(* the sum is not bounded by len(history).                                 *)
(***************************************************************************)
RECURSIVE SumCounts(_)
SumCounts(d) == IF d = <<>> THEN 0 ELSE Head(d)[2] + SumCounts(Tail(d))

RECURSIVE SumOver(_, _)
SumOver(tr, keys) ==
    IF keys = {} THEN 0
    ELSE LET k == CHOOSE k \in keys : TRUE
         IN SumCounts(tr[k]) + SumOver(tr, keys \ {k})

TotalCount(tr) == SumOver(tr, DOMAIN tr)

SameKeyAndCounts(a, b) ==
    /\ Len(a.history) >= order
    /\ Len(b.history) >= order
    /\ LastN(a.history, order) = LastN(b.history, order)
    /\ LastN(a.history, order) \in DOMAIN a.transitions
    /\ LastN(b.history, order) \in DOMAIN b.transitions
    /\ \A m \in MoveSet :
          CountAt(a.transitions, LastN(a.history, order), m)
              = CountAt(b.transitions, LastN(b.history, order), m)

C17_InsertionOrderIrrelevant ==
    \A s \in ArrivalOrders :
        LET twin == RecordAll(MarkovPredictor(order), s)
        IN SameKeyAndCounts(predictor, twin) =>
              \A r1 \in MoveSet, r2 \in MoveSet :
                  predict_next_user_move(predictor, r1).ret
                      = predict_next_user_move(twin, r2).ret


(***************************************************************************)
(* C13. A play round in flight while reset runs sees one instance only:    *)
(* the instance it chose its move from, the instance it records the user   *)
(* move into, and the instance whose learned_states and history_len it     *)
(* reports are one and the same.                                           *)
(***************************************************************************)
RoundDone(t) == threads[t].pc = "done"

C13_RoundSeesOneInstance ==
    \A t \in Threads :
        RoundDone(t) =>
            /\ threads[t].self = threads[t].chose_from
            /\ threads[t].states_from = threads[t].chose_from
            /\ threads[t].len_from = threads[t].chose_from

(***************************************************************************)
(* C20. When two play rounds with valid moves run concurrently against the *)
(* shared predictor, with no reset, no update is lost: both moves end up   *)
(* in History, the sum of the counts rises by the number of records that   *)
(* found at least `order` entries, and each increment's key is the `order` *)
(* moves that immediately precede the recorded move in the resulting       *)
(* History.                                                                *)
(***************************************************************************)
\* both rounds are over and the global was never rebound
BothRoundsDone ==
    /\ epoch = 0
    /\ \A t \in Threads : RoundDone(t)

\* the instance as it was before the two rounds
BeforeRounds ==
    RecordAll(MarkovPredictor(order),
              SubSeq(observed, 1, Len(observed) - Cardinality(Threads)))

\* the rounds whose record found at least `order` entries
Learners == {t \in Threads : threads[t].learn}

BothMovesInHistory ==
    /\ history = LastN(observed, maxlen)
    /\ \A t \in Threads :
          /\ threads[t].pos \in 1..Len(observed)
          /\ observed[threads[t].pos] = threads[t].user_move
    /\ \A t \in Threads, u \in Threads : t # u => threads[t].pos # threads[u].pos

EveryIncrementKept ==
    TotalCount(transitions)
        = TotalCount(BeforeRounds.transitions) + Cardinality(Learners)

KeysPrecedeTheMove ==
    \A t \in Learners :
        threads[t].state
            = SubSeq(observed, threads[t].pos - order, threads[t].pos - 1)

C20_NoUpdateLost ==
    BothRoundsDone =>
        /\ BothMovesInHistory
        /\ EveryIncrementKept
        /\ KeysPrecedeTheMove

====
